---- MODULE Spec2Model ----
(***************************************************************************)
(* thread-init: spawn a thread whose initialization closure F may use data *)
(* borrowed from the creator.  The creator blocks in recv until the guard  *)
(* held around F is dropped; the continuation G returned by F then runs    *)
(* concurrently with the creator and its value is collected by join.       *)
(*                                                                         *)
(* One "call" is one invocation of spawn / try_spawn; NumCalls of them run *)
(* concurrently, each with its own creator thread and (when creation       *)
(* succeeds) its own worker thread.                                        *)
(***************************************************************************)
EXTENDS Integers, FiniteSets, Sequences, TLC

\* Number of concurrent invocations.
NumCalls == 2
\* Number of accesses F makes to the borrowed data before it returns.
MaxWrites == 1
\* Largest value a continuation G may return (values are 1..MaxValue).
MaxValue == 2

Calls == 1..NumCalls
Values == 1..MaxValue
\* The public entry points that build their own thread::Builder.
Entries == {"try_spawn", "spawn"}

VARIABLES
    entry,          \* the entry point the call's result is returned through
    cpc,            \* creator's position inside spawn_init / after it
    parked,         \* the creator is descheduled inside recv, to be woken
                    \* by a message or a disconnection
    thread,         \* `thread`: the io::Result<JoinHandle> of spawn_unchecked
    outcome,        \* what the entry point handed to its caller
    wpc,            \* worker's position inside the spawned closure
    guard,          \* the worker's Guard: "none", "live" or "dropped"
    queue,          \* messages buffered in the call's mpsc channel
    senderAlive,    \* the channel's Sender has not been dropped
    receiverAlive,  \* the channel's Receiver has not been dropped
    sent,           \* messages ever sent on the call's channel
    sendres,        \* result of the guard's send (ignored by the code)
    recvres,        \* result of the creator's recv (ignored by the code)
    fwrites,        \* accesses F has made to the borrowed data
    seen,           \* state of the borrowed data when the creator resumed
    fcalls,         \* times F was invoked
    gcalls,         \* times G was invoked
    panicked,       \* which closure panicked: "none", "F" or "G"
    gret,           \* the value G returned (0: G has not returned)
    packet,         \* the thread's result slot read by join
    joinres         \* what join returned to the caller

vars == <<entry, cpc, parked, thread, outcome, wpc, guard, queue, senderAlive,
          receiverAlive, sent, sendres, recvres, fwrites, seen, fcalls, gcalls,
          panicked, gret, packet, joinres>>

chanVars == <<queue, senderAlive, receiverAlive, parked, sent, sendres, recvres>>
workVars == <<wpc, guard, fwrites, fcalls, gcalls, panicked, gret, packet>>
callVars == <<entry, cpc, thread, outcome, seen, joinres>>

\* io::Result<JoinHandle<T>>: h identifies the thread the handle refers to.
None == [tag |-> "None", h |-> 0, msg |-> ""]
Ok(h) == [tag |-> "Ok", h |-> h, msg |-> ""]
Err == [tag |-> "Err", h |-> 0, msg |-> ""]
Panic(m) == [tag |-> "Panic", h |-> 0, msg |-> m]

\* thread::Result<T> as stored for join.
Empty == [tag |-> "Empty", v |-> 0]
Value(v) == [tag |-> "Ok", v |-> v]
Unwound == [tag |-> "Err", v |-> 0]

Init ==
    /\ entry = [i \in Calls |-> "none"]
    /\ cpc = [i \in Calls |-> "channel"]
    /\ parked = [i \in Calls |-> FALSE]
    /\ thread = [i \in Calls |-> None]
    /\ outcome = [i \in Calls |-> None]
    /\ wpc = [i \in Calls |-> "none"]
    /\ guard = [i \in Calls |-> "none"]
    /\ queue = [i \in Calls |-> 0]
    /\ senderAlive = [i \in Calls |-> FALSE]
    /\ receiverAlive = [i \in Calls |-> FALSE]
    /\ sent = [i \in Calls |-> 0]
    /\ sendres = [i \in Calls |-> "None"]
    /\ recvres = [i \in Calls |-> "None"]
    /\ fwrites = [i \in Calls |-> 0]
    /\ seen = [i \in Calls |-> 0]
    /\ fcalls = [i \in Calls |-> 0]
    /\ gcalls = [i \in Calls |-> 0]
    /\ panicked = [i \in Calls |-> "none"]
    /\ gret = [i \in Calls |-> 0]
    /\ packet = [i \in Calls |-> Empty]
    /\ joinres = [i \in Calls |-> Empty]

(***************************************************************************)
(* Creator side: spawn_init                                                *)
(***************************************************************************)

\* let (sender, receiver) = mpsc::channel();
channel(i) ==
    /\ UNCHANGED parked
    /\ cpc[i] = "channel"
    /\ cpc' = [cpc EXCEPT ![i] = "spawn_unchecked"]
    /\ queue' = [queue EXCEPT ![i] = 0]
    /\ senderAlive' = [senderAlive EXCEPT ![i] = TRUE]
    /\ receiverAlive' = [receiverAlive EXCEPT ![i] = TRUE]
    /\ UNCHANGED <<entry, thread, outcome, seen, joinres, sent, sendres, recvres>>
    /\ UNCHANGED workVars

\* self.spawn_unchecked(closure) succeeds: the worker owns the closure, and
\* with it the sender and F.
spawn_ok(i) ==
    /\ thread' = [thread EXCEPT ![i] = Ok(i)]
    /\ wpc' = [wpc EXCEPT ![i] = "start"]
    /\ UNCHANGED senderAlive

\* Variant of spawn_failed: the error is reported although the thread was
\* started.
spawn_failed_started(i) ==
    /\ thread' = [thread EXCEPT ![i] = Err]
    /\ wpc' = [wpc EXCEPT ![i] = "start"]
    /\ UNCHANGED senderAlive

\* Variant of spawn_failed: the unrun closure is leaked, so its sender is
\* never dropped.
spawn_failed_leak(i) ==
    /\ thread' = [thread EXCEPT ![i] = Err]
    /\ UNCHANGED <<senderAlive, wpc>>

\* self.spawn_unchecked(closure) fails: no thread exists and the closure is
\* destroyed unrun, which drops the sender and F.
spawn_failed(i) ==
    /\ thread' = [thread EXCEPT ![i] = Err]
    /\ senderAlive' = [senderAlive EXCEPT ![i] = FALSE]
    /\ UNCHANGED wpc

spawn_unchecked(i) ==
    /\ UNCHANGED guard
    /\ UNCHANGED parked
    /\ cpc[i] = "spawn_unchecked"
    /\ cpc' = [cpc EXCEPT ![i] = "recv"]
    /\ (spawn_ok(i) \/ spawn_failed(i))
    /\ UNCHANGED <<entry, outcome, seen, joinres>>
    /\ UNCHANGED <<queue, receiverAlive, sent, sendres, recvres>>
    /\ UNCHANGED <<fwrites, fcalls, gcalls, panicked, gret, packet>>

\* Variant of recv_ready: only a message ends the wait, a disconnection does
\* not.
recv_ready_msg_only(i) == queue[i] > 0

\* Variant of recv_ready: the creator waits for the whole thread, as a join
\* would.
recv_ready_joined(i) == wpc[i] = "done"

\* Receiver::recv can return: a message is buffered, or no sender is left.
recv_ready(i) == queue[i] > 0 \/ ~senderAlive[i]

\* receiver.recv() finds the channel empty and the sender alive: the creator
\* is descheduled until a message or a disconnection arrives.
recv_block(i) ==
    /\ cpc[i] = "recv"
    /\ ~parked[i]
    /\ ~recv_ready(i)
    /\ parked' = [parked EXCEPT ![i] = TRUE]
    /\ UNCHANGED callVars
    /\ UNCHANGED <<queue, senderAlive, receiverAlive, sent, sendres, recvres>>
    /\ UNCHANGED workVars

\* Variant of recv: a try_recv, which returns without waiting.
recv_try(i) ==
    /\ parked' = [parked EXCEPT ![i] = FALSE]
    /\ cpc[i] = "recv"
    /\ IF queue[i] > 0
         THEN /\ queue' = [queue EXCEPT ![i] = queue[i] - 1]
              /\ recvres' = [recvres EXCEPT ![i] = "Ok"]
         ELSE /\ recvres' = [recvres EXCEPT ![i] = "Disconnected"]
              /\ UNCHANGED queue
    /\ seen' = [seen EXCEPT ![i] = fwrites[i]]
    /\ cpc' = [cpc EXCEPT ![i] = "ret"]
    /\ UNCHANGED <<entry, thread, outcome, joinres>>
    /\ UNCHANGED <<senderAlive, receiverAlive, sent, sendres>>
    /\ UNCHANGED workVars

\* let _ = receiver.recv();   blocks while the channel is empty and the
\* sender is alive; the result is discarded.
recv(i) ==
    /\ parked' = [parked EXCEPT ![i] = FALSE]
    /\ cpc[i] = "recv"
    /\ recv_ready(i)
    /\ IF queue[i] > 0
         THEN /\ queue' = [queue EXCEPT ![i] = queue[i] - 1]
              /\ recvres' = [recvres EXCEPT ![i] = "Ok"]
         ELSE /\ recvres' = [recvres EXCEPT ![i] = "Disconnected"]
              /\ UNCHANGED queue
    /\ seen' = [seen EXCEPT ![i] = fwrites[i]]
    /\ cpc' = [cpc EXCEPT ![i] = "ret"]
    /\ UNCHANGED <<entry, thread, outcome, joinres>>
    /\ UNCHANGED <<senderAlive, receiverAlive, sent, sendres>>
    /\ UNCHANGED workVars

\* thread::Builder::new().spawn_init(f)
try_spawn(r) == r

\* Result::expect("Spawning failed")
expect(r, m) == IF r.tag = "Ok" THEN r ELSE Panic(m)

\* Variant of spawn: the creation error is handed back instead of panicking.
spawn_passes_error(r) == try_spawn(r)

\* try_spawn(f).expect("Spawning failed")
spawn(r) == expect(try_spawn(r), "Spawning failed")

\* What the entry point e makes of spawn_init's result r.
entry_result(e, r) == IF e = "spawn" THEN spawn(r) ELSE try_spawn(r)

\* spawn_init returns `thread` and the receiver goes out of scope; the
\* result passes through the entry point e the call was made by.  Nothing
\* before this step depends on e (both entry points only forward f), so e is
\* drawn here, where it is first used.
ret(i, e) ==
    /\ UNCHANGED parked
    /\ cpc[i] = "ret"
    /\ entry' = [entry EXCEPT ![i] = e]
    /\ outcome' = [outcome EXCEPT ![i] = entry_result(e, thread[i])]
    /\ receiverAlive' = [receiverAlive EXCEPT ![i] = FALSE]
    /\ cpc' = [cpc EXCEPT ![i] = "returned"]
    /\ UNCHANGED <<thread, seen, joinres>>
    /\ UNCHANGED <<queue, senderAlive, sent, sendres, recvres>>
    /\ UNCHANGED workVars

\* Variant of join: the result slot is read without waiting for the thread.
join_nowait(i) ==
    /\ cpc[i] = "returned"
    /\ outcome[i].tag = "Ok"
    /\ joinres' = [joinres EXCEPT ![i] = packet[outcome[i].h]]
    /\ cpc' = [cpc EXCEPT ![i] = "joined"]
    /\ UNCHANGED <<entry, thread, outcome, seen>>
    /\ UNCHANGED chanVars
    /\ UNCHANGED workVars

\* thread.join(): blocks until the thread of the handle has terminated and
\* yields its result.
join(i) ==
    /\ cpc[i] = "returned"
    /\ outcome[i].tag = "Ok"
    /\ wpc[outcome[i].h] = "done"
    /\ joinres' = [joinres EXCEPT ![i] = packet[outcome[i].h]]
    /\ cpc' = [cpc EXCEPT ![i] = "joined"]
    /\ UNCHANGED <<entry, thread, outcome, seen>>
    /\ UNCHANGED chanVars
    /\ UNCHANGED workVars

(***************************************************************************)
(* Worker side: the closure handed to spawn_unchecked                      *)
(***************************************************************************)

\* Variant of send: the message is handed over only to a receiver that is
\* already waiting, and is lost otherwise.
send_unbuffered(i) ==
    IF receiverAlive[i]
      THEN /\ queue' = [queue EXCEPT ![i] = IF parked[i] THEN queue[i] + 1
                                                        ELSE queue[i]]
           /\ sent' = [sent EXCEPT ![i] = sent[i] + 1]
           /\ sendres' = [sendres EXCEPT ![i] = "Ok"]
      ELSE /\ sendres' = [sendres EXCEPT ![i] = "Err"]
           /\ UNCHANGED <<queue, sent>>

\* Variant of send: every call uses the channel of call 1.
send_shared(i) ==
    IF receiverAlive[1]
      THEN /\ queue' = [queue EXCEPT ![1] = queue[1] + 1]
           /\ sent' = [sent EXCEPT ![i] = sent[i] + 1]
           /\ sendres' = [sendres EXCEPT ![i] = "Ok"]
      ELSE /\ sendres' = [sendres EXCEPT ![i] = "Err"]
           /\ UNCHANGED <<queue, sent>>

\* Sender::send(()): buffers the message unless the receiver is gone; it
\* never blocks.
send(i) ==
    IF receiverAlive[i]
      THEN /\ queue' = [queue EXCEPT ![i] = queue[i] + 1]
           /\ sent' = [sent EXCEPT ![i] = sent[i] + 1]
           /\ sendres' = [sendres EXCEPT ![i] = "Ok"]
      ELSE /\ sendres' = [sendres EXCEPT ![i] = "Err"]
           /\ UNCHANGED <<queue, sent>>

\* Variant of Guard: the guard is a temporary, dropped (and so fired) as soon
\* as it is built, before F runs.
Guard_temporary(i) ==
    /\ parked' = [parked EXCEPT ![i] = FALSE]
    /\ guard' = [guard EXCEPT ![i] = "dropped"]
    /\ wpc[i] = "start"
    /\ wpc' = [wpc EXCEPT ![i] = "guarded"]
    /\ send(i)
    /\ UNCHANGED <<senderAlive, receiverAlive, recvres>>
    /\ UNCHANGED <<fwrites, fcalls, gcalls, panicked, gret, packet>>
    /\ UNCHANGED callVars

\* let _guard = Guard(sender);
Guard(i) ==
    /\ guard' = [guard EXCEPT ![i] = "live"]
    /\ wpc[i] = "start"
    /\ wpc' = [wpc EXCEPT ![i] = "guarded"]
    /\ UNCHANGED <<fwrites, fcalls, gcalls, panicked, gret, packet>>
    /\ UNCHANGED chanVars
    /\ UNCHANGED callVars

\* f() is entered.
f_call(i) ==
    /\ UNCHANGED guard
    /\ wpc[i] = "guarded"
    /\ wpc' = [wpc EXCEPT ![i] = "f_running"]
    /\ fcalls' = [fcalls EXCEPT ![i] = fcalls[i] + 1]
    /\ UNCHANGED <<fwrites, gcalls, panicked, gret, packet>>
    /\ UNCHANGED chanVars
    /\ UNCHANGED callVars

\* F uses the data it borrowed from the creator.
f_step(i) ==
    /\ UNCHANGED guard
    /\ wpc[i] = "f_running"
    /\ fwrites[i] < MaxWrites
    /\ fwrites' = [fwrites EXCEPT ![i] = fwrites[i] + 1]
    /\ UNCHANGED <<wpc, fcalls, gcalls, panicked, gret, packet>>
    /\ UNCHANGED chanVars
    /\ UNCHANGED callVars

\* F returns the continuation G.
f_return(i) ==
    /\ UNCHANGED guard
    /\ wpc[i] = "f_running"
    /\ fwrites[i] = MaxWrites
    /\ wpc' = [wpc EXCEPT ![i] = "f_returned"]
    /\ UNCHANGED <<fwrites, fcalls, gcalls, panicked, gret, packet>>
    /\ UNCHANGED chanVars
    /\ UNCHANGED callVars

\* Variant of f_panic: the panic is caught and F is run once more.
f_panic_retry(i) ==
    /\ UNCHANGED guard
    /\ wpc[i] = "f_running"
    /\ IF fcalls[i] < 2
         THEN /\ wpc' = [wpc EXCEPT ![i] = "guarded"]
              /\ UNCHANGED panicked
         ELSE /\ wpc' = [wpc EXCEPT ![i] = "f_unwinding"]
              /\ panicked' = [panicked EXCEPT ![i] = "F"]
    /\ UNCHANGED <<fwrites, fcalls, gcalls, gret, packet>>
    /\ UNCHANGED chanVars
    /\ UNCHANGED callVars

\* F panics; the worker starts to unwind.
f_panic(i) ==
    /\ UNCHANGED guard
    /\ wpc[i] = "f_running"
    /\ wpc' = [wpc EXCEPT ![i] = "f_unwinding"]
    /\ panicked' = [panicked EXCEPT ![i] = "F"]
    /\ UNCHANGED <<fwrites, fcalls, gcalls, gret, packet>>
    /\ UNCHANGED chanVars
    /\ UNCHANGED callVars

\* Variant of drop: the channel is a rendezvous channel, whose send waits
\* for the receiver to be waiting.
drop_rendezvous(i) ==
    /\ parked[i]
    /\ parked' = [parked EXCEPT ![i] = FALSE]
    /\ guard' = [guard EXCEPT ![i] = "dropped"]
    /\ wpc[i] \in {"f_returned", "f_unwinding"}
    /\ send(i)
    /\ senderAlive' = [senderAlive EXCEPT ![i] = FALSE]
    /\ IF wpc[i] = "f_returned"
         THEN /\ wpc' = [wpc EXCEPT ![i] = "scope_exited"]
              /\ UNCHANGED packet
         ELSE /\ wpc' = [wpc EXCEPT ![i] = "done"]
              /\ packet' = [packet EXCEPT ![i] = Unwound]
    /\ UNCHANGED <<receiverAlive, recvres>>
    /\ UNCHANGED <<fwrites, fcalls, gcalls, panicked, gret>>
    /\ UNCHANGED callVars

\* Variant of drop: the send is an ordinary statement after f(), skipped by
\* unwinding; the sender is still dropped.
drop_on_return_only(i) ==
    /\ parked' = [parked EXCEPT ![i] = FALSE]
    /\ guard' = [guard EXCEPT ![i] = "dropped"]
    /\ wpc[i] \in {"f_returned", "f_unwinding"}
    /\ senderAlive' = [senderAlive EXCEPT ![i] = FALSE]
    /\ IF wpc[i] = "f_returned"
         THEN /\ send(i)
              /\ wpc' = [wpc EXCEPT ![i] = "scope_exited"]
              /\ UNCHANGED packet
         ELSE /\ wpc' = [wpc EXCEPT ![i] = "done"]
              /\ packet' = [packet EXCEPT ![i] = Unwound]
              /\ UNCHANGED <<queue, sent, sendres>>
    /\ UNCHANGED <<receiverAlive, recvres>>
    /\ UNCHANGED <<fwrites, fcalls, gcalls, panicked, gret>>
    /\ UNCHANGED callVars

\* Guard::drop, run when the guarded scope is left by F's return or by
\* unwinding: it sends, then the guard's Sender is dropped; a creator
\* descheduled in recv is made runnable.  After a panic the unwinding ends
\* the thread with a failure for join.
drop(i) ==
    /\ parked' = [parked EXCEPT ![i] = FALSE]
    /\ guard' = [guard EXCEPT ![i] = "dropped"]
    /\ wpc[i] \in {"f_returned", "f_unwinding"}
    /\ send(i)
    /\ senderAlive' = [senderAlive EXCEPT ![i] = FALSE]
    /\ IF wpc[i] = "f_returned"
         THEN /\ wpc' = [wpc EXCEPT ![i] = "scope_exited"]
              /\ UNCHANGED packet
         ELSE /\ wpc' = [wpc EXCEPT ![i] = "done"]
              /\ packet' = [packet EXCEPT ![i] = Unwound]
    /\ UNCHANGED <<receiverAlive, recvres>>
    /\ UNCHANGED <<fwrites, fcalls, gcalls, panicked, gret>>
    /\ UNCHANGED callVars

\* Variant of g_call: the guard lives to the end of the closure, so g() is
\* entered inside the guarded scope.
g_call_in_scope(i) ==
    /\ UNCHANGED guard
    /\ wpc[i] = "f_returned"
    /\ wpc' = [wpc EXCEPT ![i] = "g_running"]
    /\ gcalls' = [gcalls EXCEPT ![i] = gcalls[i] + 1]
    /\ UNCHANGED <<fwrites, fcalls, panicked, gret, packet>>
    /\ UNCHANGED chanVars
    /\ UNCHANGED callVars

\* g() is entered.
g_call(i) ==
    /\ UNCHANGED guard
    /\ wpc[i] = "scope_exited"
    /\ wpc' = [wpc EXCEPT ![i] = "g_running"]
    /\ gcalls' = [gcalls EXCEPT ![i] = gcalls[i] + 1]
    /\ UNCHANGED <<fwrites, fcalls, panicked, gret, packet>>
    /\ UNCHANGED chanVars
    /\ UNCHANGED callVars

\* G returns v, which becomes the thread's result.
g_return(i, v) ==
    /\ UNCHANGED guard
    /\ wpc[i] = "g_running"
    /\ wpc' = [wpc EXCEPT ![i] = "done"]
    /\ gret' = [gret EXCEPT ![i] = v]
    /\ packet' = [packet EXCEPT ![i] = Value(v)]
    /\ UNCHANGED <<fwrites, fcalls, gcalls, panicked>>
    /\ UNCHANGED chanVars
    /\ UNCHANGED callVars

\* Variant of g_panic: the panic is caught and the worker goes back to the
\* point before g().
g_panic_retry(i) ==
    /\ UNCHANGED guard
    /\ wpc[i] = "g_running"
    /\ IF gcalls[i] < 2
         THEN /\ wpc' = [wpc EXCEPT ![i] = "scope_exited"]
              /\ UNCHANGED <<panicked, packet>>
         ELSE /\ wpc' = [wpc EXCEPT ![i] = "done"]
              /\ panicked' = [panicked EXCEPT ![i] = "G"]
              /\ packet' = [packet EXCEPT ![i] = Unwound]
    /\ UNCHANGED <<fwrites, fcalls, gcalls, gret>>
    /\ UNCHANGED chanVars
    /\ UNCHANGED callVars

\* Variant of g_panic: the panic is caught and a default value stored.
g_panic_swallowed(i) ==
    /\ UNCHANGED guard
    /\ wpc[i] = "g_running"
    /\ wpc' = [wpc EXCEPT ![i] = "done"]
    /\ panicked' = [panicked EXCEPT ![i] = "G"]
    /\ packet' = [packet EXCEPT ![i] = Value(0)]
    /\ UNCHANGED <<fwrites, fcalls, gcalls, gret>>
    /\ UNCHANGED chanVars
    /\ UNCHANGED callVars

\* G panics; the thread ends with a failure for join.
g_panic(i) ==
    /\ UNCHANGED guard
    /\ wpc[i] = "g_running"
    /\ wpc' = [wpc EXCEPT ![i] = "done"]
    /\ panicked' = [panicked EXCEPT ![i] = "G"]
    /\ packet' = [packet EXCEPT ![i] = Unwound]
    /\ UNCHANGED <<fwrites, fcalls, gcalls, gret>>
    /\ UNCHANGED chanVars
    /\ UNCHANGED callVars

Next ==
    \E i \in Calls :
        \/ channel(i)
        \/ spawn_unchecked(i)
        \/ recv_block(i)
        \/ recv(i)
        \/ \E e \in Entries : ret(i, e)
        \/ join(i)
        \/ Guard(i)
        \/ f_call(i)
        \/ f_step(i)
        \/ f_return(i)
        \/ f_panic(i)
        \/ drop(i)
        \/ g_call(i)
        \/ \E v \in Values : g_return(i, v)
        \/ g_panic(i)

Spec == Init /\ [][Next]_vars

\* The worker and the creator are both scheduled fairly once they can move;
\* nothing forces F or G themselves to make progress.
FairSpec ==
    /\ Spec
    /\ \A i \in Calls :
          /\ WF_vars(drop(i))
          /\ WF_vars(recv(i))
          /\ WF_vars(\E e \in Entries : ret(i, e))

(***************************************************************************)
(* Properties                                                              *)
(***************************************************************************)

\* F has returned or panicked.
FFinished(i) == wpc[i] \in {"f_returned", "f_unwinding", "scope_exited",
                            "g_running", "done"}
\* F has not started or is still running.
FPending(i) == wpc[i] \in {"start", "guarded", "f_running"}
\* The guarded scope around f() has been left and the guard dropped.
ScopeLeft(i) == wpc[i] \in {"scope_exited", "g_running", "done"}
\* The creator's recv has returned.
Resumed(i) == cpc[i] \in {"ret", "returned", "joined"}
\* Control is back at the caller of the entry point.
Returned(i) == cpc[i] \in {"returned", "joined"}
Created(i) == thread[i].tag = "Ok"
CreationFailed(i) == thread[i].tag = "Err"

\* C1: once the creator of a created worker has resumed from recv, F was
\* invoked and has finished (returned or panicked), and the borrowed data
\* the creator saw on resuming is exactly as F left it.
C1_HappensBefore ==
    \A i \in Calls :
        (Created(i) /\ Resumed(i)) =>
            /\ FFinished(i)
            /\ fcalls[i] = 1
            /\ seen[i] = fwrites[i]

\* C1 witness: a creator got its handle back after F made all its accesses.
C1_Witness ==
    \E i \in Calls :
        /\ cpc[i] = "returned"
        /\ outcome[i] = Ok(i)
        /\ fwrites[i] = MaxWrites
        /\ seen[i] = MaxWrites

\* C2: under fair scheduling, whenever F has terminated (by return or by
\* panic) the signal is eventually sent and the creator eventually returns
\* from the entry point.
C2_NoDeadlock ==
    \A i \in Calls :
        (wpc[i] \in {"f_returned", "f_unwinding"})
            ~> (sent[i] = 1 /\ Returned(i))

\* C2 witness: F panicked, the signal was sent and the creator returned.
C2_Witness ==
    \E i \in Calls :
        /\ panicked[i] = "F"
        /\ sent[i] = 1
        /\ recvres[i] = "Ok"
        /\ cpc[i] = "returned"

\* C3: join returns only after the worker is done, and when neither closure
\* panicked it yields exactly the value G of that call returned.
C3_RoundTrip ==
    \A i \in Calls :
        cpc[i] = "joined" =>
            /\ wpc[i] = "done"
            /\ panicked[i] = "none" =>
                  /\ gret[i] \in Values
                  /\ joinres[i] = Value(gret[i])

\* C3 witness: two calls were joined and yielded different values.
C3_Witness ==
    \E i, j \in Calls :
        /\ cpc[i] = "joined" /\ joinres[i] = Value(1) /\ gret[i] = 1
        /\ cpc[j] = "joined" /\ joinres[j] = Value(MaxValue) /\ gret[j] = MaxValue

\* C4: when the worker was created the entry point hands back Ok(handle),
\* whether or not F or G panicked, and join reports a failure exactly when
\* F or G panicked.
C4_FailuresDeferredToJoin ==
    \A i \in Calls :
        /\ (Created(i) /\ Returned(i)) => outcome[i] = Ok(i)
        /\ cpc[i] = "joined" =>
              (joinres[i].tag = "Err" <=> panicked[i] # "none")

\* C4 witness: G panicked, the creator had got its handle, join failed.
C4_Witness ==
    \E i \in Calls :
        /\ cpc[i] = "joined"
        /\ outcome[i] = Ok(i)
        /\ panicked[i] = "G"
        /\ joinres[i] = Unwound

\* C5: when thread creation fails no worker exists, neither F nor G is
\* ever invoked, no handle is produced, and try_spawn returns the error.
C5_CreationFailure ==
    \A i \in Calls :
        CreationFailed(i) =>
            /\ wpc[i] = "none"
            /\ fcalls[i] = 0 /\ gcalls[i] = 0
            /\ packet[i] = Empty
            /\ outcome[i].tag # "Ok"
            /\ (entry[i] = "try_spawn" /\ Returned(i)) => outcome[i] = Err

\* C5 witness: try_spawn returned the creation error.
C5_Witness ==
    \E i \in Calls :
        /\ entry[i] = "try_spawn"
        /\ cpc[i] = "returned"
        /\ outcome[i] = Err

\* C6 as stated: when creation fails the creator never executes recv.
C6_WaitNeverReached ==
    \A i \in Calls : CreationFailed(i) => recvres[i] = "None"

\* C6 amended: when creation fails the creator does execute recv, but recv
\* never blocks there: it can return at once, it returns a disconnection
\* (no message), and the creator goes on to return.
C6_WaitReturnsAtOnce ==
    \A i \in Calls :
        CreationFailed(i) =>
            /\ cpc[i] = "recv" => ENABLED recv(i)
            /\ Resumed(i) => recvres[i] = "Disconnected"
            /\ sent[i] = 0 /\ queue[i] = 0

\* C6 witness: creation failed, recv ran and returned a disconnection.
C6_Witness ==
    \E i \in Calls :
        /\ CreationFailed(i)
        /\ recvres[i] = "Disconnected"
        /\ cpc[i] = "ret"

\* C7: spawn ends in the panic "Spawning failed" when creation failed and
\* never hands back a handle or an error then; when creation succeeded it
\* hands back the handle try_spawn returns.
C7_SpawnIsFatalOnFailure ==
    \A i \in Calls :
        (entry[i] = "spawn" /\ Returned(i)) =>
            /\ CreationFailed(i) => outcome[i] = Panic("Spawning failed")
            /\ Created(i) => outcome[i] = try_spawn(thread[i])

\* C7 witness: a spawn call ended in the panic.
C7_Witness ==
    \E i \in Calls :
        /\ entry[i] = "spawn"
        /\ cpc[i] = "returned"
        /\ CreationFailed(i)
        /\ outcome[i].tag = "Panic"

\* C8: while F of call i has not finished, creator i stays blocked in recv
\* on an empty channel whatever the other calls have done, and the channel
\* of call i changes only in steps of creator i or worker i.
C8_Independence ==
    /\ [](\A i \in Calls :
            (Created(i) /\ FPending(i)) =>
                /\ cpc[i] = "recv"
                /\ queue[i] = 0
                /\ ~ENABLED recv(i))
    /\ [][\A i \in Calls :
            (queue'[i] # queue[i] \/ senderAlive'[i] # senderAlive[i]
                \/ receiverAlive'[i] # receiverAlive[i])
              => (cpc'[i] # cpc[i] \/ wpc'[i] # wpc[i])]_vars

\* C8 witness: the other call's F finished and its creator returned while
\* this call's F is still running and its creator is waiting.
C8_Witness ==
    \E i, j \in Calls :
        /\ i # j
        /\ sent[j] = 1 /\ cpc[j] = "returned" /\ Created(j)
        /\ wpc[i] = "f_running" /\ cpc[i] = "recv"

\* C9: once the guarded scope is left the creator can complete its return
\* whatever G is doing, and G can start and finish whatever the creator is
\* doing.
C9_ExecutionUnordered ==
    \A i \in Calls :
        /\ (cpc[i] = "recv" /\ ScopeLeft(i)) => ENABLED recv(i)
        /\ cpc[i] = "ret" => \A e \in Entries : ENABLED ret(i, e)
        /\ wpc[i] = "scope_exited" => ENABLED g_call(i)
        /\ wpc[i] = "g_running" => ENABLED g_return(i, 1)

\* C9 witness: one creator has returned while its G has not started, and
\* another call's G has finished while its creator has not resumed.
C9_Witness ==
    \E i, j \in Calls :
        /\ cpc[i] = "returned" /\ wpc[i] = "scope_exited"
        /\ cpc[j] = "recv" /\ wpc[j] = "done" /\ gret[j] \in Values

\* C10: at most one message is ever sent on a call's channel, it is sent
\* only after F has finished, and once the guarded scope has been left (on
\* either exit path) exactly one has been sent.
C10_GuardFiresOnce ==
    \A i \in Calls :
        /\ sent[i] <= 1
        /\ sent[i] = 1 => FFinished(i)
        /\ ScopeLeft(i) => sent[i] = 1

\* C10 witness: one guard fired on F's panic, another on F's return.
C10_Witness ==
    \E i, j \in Calls :
        /\ wpc[i] = "done" /\ panicked[i] = "F" /\ sent[i] = 1
        /\ wpc[j] = "scope_exited" /\ sent[j] = 1

\* C11: the guarded scope ends between F and G.  While F runs, and right
\* after it has returned, nothing has been sent and the guard is alive; at
\* the point before g() the signal has been sent and G has not been invoked;
\* and whenever G has been invoked the signal has been sent and the guard,
\* with its sender, is gone.
C11_ScopeEndsBetweenFAndG ==
    \A i \in Calls :
        /\ wpc[i] \in {"f_running", "f_returned"} =>
              (sent[i] = 0 /\ guard[i] = "live" /\ gcalls[i] = 0)
        /\ wpc[i] = "scope_exited" =>
              (sent[i] = 1 /\ guard[i] = "dropped" /\ gcalls[i] = 0)
        /\ gcalls[i] > 0 =>
              (sent[i] = 1 /\ guard[i] = "dropped" /\ ~senderAlive[i])

\* C11 witness: G is running, the signal was sent and the guard is gone.
C11_Witness ==
    \E i \in Calls :
        /\ wpc[i] = "g_running"
        /\ gcalls[i] = 1
        /\ sent[i] = 1
        /\ guard[i] = "dropped"

\* C12: when creation fails the sender is destroyed with the never-run
\* closure (no guard is ever built, nothing is sent), the creator is never
\* descheduled in recv, recv returns a disconnection, the return that
\* follows is enabled, and the call ends with the creation error passed
\* through its entry point.
C12_DisconnectionCountsAsDone ==
    \A i \in Calls :
        CreationFailed(i) =>
            /\ ~senderAlive[i]
            /\ guard[i] = "none" /\ sendres[i] = "None" /\ sent[i] = 0
            /\ ~parked[i]
            /\ cpc[i] # "spawn_unchecked"
            /\ cpc[i] = "recv" => (~ENABLED recv_block(i) /\ ENABLED recv(i))
            /\ cpc[i] = "ret" =>
                  (recvres[i] = "Disconnected"
                     /\ \A e \in Entries : ENABLED ret(i, e))
            /\ Returned(i) =>
                  (recvres[i] = "Disconnected"
                     /\ outcome[i] = entry_result(entry[i], Err)
                     /\ outcome[i].tag \in {"Err", "Panic"})

\* C12 witness: creation failed, recv returned on the disconnection and the
\* call ended with the error.
C12_Witness ==
    \E i \in Calls :
        /\ CreationFailed(i)
        /\ cpc[i] = "returned"
        /\ recvres[i] = "Disconnected"
        /\ sent[i] = 0
        /\ outcome[i] = Err

\* C13: F and G are each invoked at most once per call; once a created
\* worker has terminated F was invoked exactly once, and G exactly once if
\* F returned and never if F panicked.
C13_InvocationCounts ==
    \A i \in Calls :
        /\ fcalls[i] <= 1
        /\ gcalls[i] <= 1
        /\ (Created(i) /\ wpc[i] = "done") =>
              /\ fcalls[i] = 1
              /\ gcalls[i] = (IF panicked[i] = "F" THEN 0 ELSE 1)

\* C13 witness: one worker ended after F panicked, another after G ran.
C13_Witness ==
    \E i, j \in Calls :
        /\ wpc[i] = "done" /\ panicked[i] = "F" /\ fcalls[i] = 1 /\ gcalls[i] = 0
        /\ wpc[j] = "done" /\ panicked[j] # "F" /\ fcalls[j] = 1 /\ gcalls[j] = 1

\* The creator's phase: 0 Created, 1 WorkerSpawned (waiting in or about to
\* enter recv), 2 CreatorUnblocked.
CreatorPhase(c) ==
    IF c \in {"channel", "spawn_unchecked"} THEN 0
    ELSE IF c = "recv" THEN 1 ELSE 2

\* The worker's phase: 0 no worker, 1 InitRunning, 2 InitDone (signal
\* fired; a worker whose F panicked ends here), 3 ExecutionRunning,
\* 4 ExecutionDone.
WorkerPhase(w, p) ==
    IF w = "none" THEN 0
    ELSE IF w \in {"start", "guarded", "f_running", "f_returned", "f_unwinding"}
           THEN 1
    ELSE IF w = "scope_exited" THEN 2
    ELSE IF w = "g_running" THEN 3
    ELSE IF p = "F" THEN 2 ELSE 4

\* Positions in program order, creator and worker.
CreatorRank(c) ==
    CASE c = "channel" -> 0
      [] c = "spawn_unchecked" -> 1
      [] c = "recv" -> 2
      [] c = "ret" -> 3
      [] c = "returned" -> 4
      [] c = "joined" -> 5

WorkerRank(w) ==
    CASE w = "none" -> 0
      [] w = "start" -> 1
      [] w = "guarded" -> 2
      [] w = "f_running" -> 3
      [] w \in {"f_returned", "f_unwinding"} -> 4
      [] w = "scope_exited" -> 5
      [] w = "g_running" -> 6
      [] w = "done" -> 7

\* C14: every step leaves each phase where it is or moves it to the next
\* one, no position is entered again after it was left, and a creator with
\* a worker is unblocked only when the worker's init phase is done.
C14_ForwardOnlyLifecycle ==
    /\ [][\A i \in Calls :
            /\ CreatorPhase(cpc'[i]) - CreatorPhase(cpc[i]) \in {0, 1}
            /\ WorkerPhase(wpc'[i], panicked'[i])
                 - WorkerPhase(wpc[i], panicked[i]) \in {0, 1}
            /\ CreatorRank(cpc'[i]) >= CreatorRank(cpc[i])
            /\ WorkerRank(wpc'[i]) >= WorkerRank(wpc[i])]_vars
    /\ [](\A i \in Calls :
            (Created(i) /\ CreatorPhase(cpc[i]) = 2) =>
                WorkerPhase(wpc[i], panicked[i]) >= 2)

\* C14 witness: a call went through its whole lifecycle.
C14_Witness ==
    \E i \in Calls :
        /\ CreatorPhase(cpc[i]) = 2
        /\ WorkerPhase(wpc[i], panicked[i]) = 4
        /\ gret[i] \in Values

\* C15: every worker step is enabled at its position whatever the creator
\* is doing, in particular the guard's drop (and its send) whether or not
\* the creator is waiting in recv; on the creator's side only recv can be
\* disabled at its position.
C15_WorkerNeverSuspends ==
    \A i \in Calls :
        /\ wpc[i] = "start" => ENABLED Guard(i)
        /\ wpc[i] = "guarded" => ENABLED f_call(i)
        /\ wpc[i] = "f_running" =>
              (ENABLED (f_step(i) \/ f_return(i)) /\ ENABLED f_panic(i))
        /\ wpc[i] \in {"f_returned", "f_unwinding"} => ENABLED drop(i)
        /\ wpc[i] = "scope_exited" => ENABLED g_call(i)
        /\ wpc[i] = "g_running" =>
              ((\A v \in Values : ENABLED g_return(i, v)) /\ ENABLED g_panic(i))
        /\ cpc[i] = "channel" => ENABLED channel(i)
        /\ cpc[i] = "spawn_unchecked" => ENABLED spawn_unchecked(i)
        /\ cpc[i] = "ret" => ENABLED (\E e \in Entries : ret(i, e))
        /\ parked[i] => (cpc[i] = "recv" /\ ~ENABLED recv(i))

\* C15 witness: one guard is about to be dropped while its creator has not
\* begun to wait, another while its creator is descheduled in recv.
C15_Witness ==
    \E i, j \in Calls :
        /\ wpc[i] \in {"f_returned", "f_unwinding"} /\ cpc[i] = "recv" /\ ~parked[i]
        /\ wpc[j] \in {"f_returned", "f_unwinding"} /\ cpc[j] = "recv" /\ parked[j]

\* C16: a send always buffers its message, whether or not the creator is
\* already waiting; a sent signal not yet received is in the channel with
\* the creator runnable and recv enabled; and a creator that resumed after
\* the signal was sent received it.
C16_NoLostWakeup ==
    /\ [][\A i \in Calls :
            sent'[i] # sent[i] =>
                (queue'[i] = queue[i] + 1 /\ ~parked'[i])]_vars
    /\ [](\A i \in Calls :
            /\ (sent[i] = 1 /\ cpc[i] = "recv") =>
                  (queue[i] = 1 /\ ~parked[i] /\ ENABLED recv(i))
            /\ (sent[i] = 1 /\ Resumed(i)) =>
                  (recvres[i] = "Ok" /\ queue[i] = 0))

\* C16 witness: the signal is buffered and the creator, not descheduled, has
\* yet to take it.
C16_Witness ==
    \E i \in Calls :
        /\ sent[i] = 1
        /\ queue[i] = 1
        /\ cpc[i] = "recv"
        /\ ~parked[i]
        /\ ScopeLeft(i)

\* C17: the guard's send never fails, the receiver being alive whenever the
\* guard exists and dropped only after recv has returned; recv returns a
\* message whenever the worker was created and a disconnection only when
\* creation failed.
C17_IgnoredErrorsArePathDetermined ==
    \A i \in Calls :
        /\ sendres[i] # "Err"
        /\ guard[i] = "live" => receiverAlive[i]
        /\ wpc[i] \in {"f_returned", "f_unwinding"} => receiverAlive[i]
        /\ (cpc[i] \in {"recv", "ret"}) => receiverAlive[i]
        /\ Resumed(i) =>
              /\ Created(i) => recvres[i] = "Ok"
              /\ recvres[i] = "Disconnected" <=> CreationFailed(i)

\* C17 witness: one call's send and recv both succeeded, another call, whose
\* creation failed, got the disconnection.
C17_Witness ==
    \E i, j \in Calls :
        /\ Created(i) /\ sendres[i] = "Ok" /\ recvres[i] = "Ok" /\ Returned(i)
        /\ CreationFailed(j) /\ recvres[j] = "Disconnected" /\ Returned(j)

====
